---- MODULE Spec2Model ----
(***************************************************************************)
(* A model of the sqlite-vector-core storage engine                        *)
(* (src/crates/sqlite-vector-core/src): the vector codec, the similarity   *)
(* kernel and the VectorStore operations over one SQLite connection.       *)
(*                                                                         *)
(* Numbers.  An f32 component is modelled by the integer it denotes; every *)
(* modelled component is a small integer, which f32 represents exactly.    *)
(* A norm sqrt(s) is modelled by the integer s (its square), and a cosine  *)
(* similarity dot / (sqrt(na) * sqrt(nb)) by the pair                      *)
(* [num |-> dot, den2 |-> na * nb].  On the modelled range two norms or    *)
(* two similarities that differ as real numbers differ by far more than    *)
(* f32 rounding, so every comparison the code makes on unequal values is   *)
(* decided as the model decides it; values that are equal as real numbers  *)
(* are ties, which the model orders nondeterministically.                  *)
(* Four more f32 values are carried by names of their own: Tiny (2^-75, a  *)
(* finite number whose square underflows to 0.0), Huge (2^64, a finite     *)
(* number whose square overflows), Infinity and NaN; arithmetic on them is *)
(* IEEE-754's (MulF, AddF, Quotient).                                      *)
(***************************************************************************)
EXTENDS Integers, Sequences, FiniteSets, TLC

\* ---------------------------------------------------------------- bounds
\* the store's configured dimension (VectorConfig.dimension)
Dim == 2
\* components of modelled vectors are 0..MaxVal
MaxVal == 2
\* longest byte slice handed to deserialize_vector
MaxBytes == 5
\* no insert is attempted once the next row id would exceed MaxId
MaxId == 3
\* longest batch handed to insert_batch
MaxBatch == 2
\* threads that insert concurrently, each through an instance of its own
NThreads == 2
\* inserts of each such thread
NInserts == 2

VARIABLES
    rows,     \* committed rows of table "vectors": id -> [vector, norm, metadata]
    seq,      \* committed sqlite_sequence entry of the table (AUTOINCREMENT)
    tx,       \* the connection's open transaction and its uncommitted view
    issued,   \* every id a successful insert / insert_batch has returned
    last,     \* the last call on the store: operation, arguments, result
    dimension,  \* config.dimension of the open instance
    write_lock, \* the thread whose connection holds the file's write lock, or 0
    threads,    \* per thread with an instance of its own: its progress and results
    batch,      \* the insert_batch call the first instance is inside, if any
    probe       \* the last call of a function of the codec or the kernel

vars == <<rows, seq, tx, issued, last, dimension, write_lock, threads, batch, probe>>

\* ---------------------------------------------------------------- helpers
Max(a, b) == IF a >= b THEN a ELSE b
Min(a, b) == IF a <= b THEN a ELSE b

SetMax(S) == IF S = {} THEN 0 ELSE CHOOSE x \in S : \A y \in S : y <= x

RECURSIVE Pow2(_)
Pow2(n) == IF n = 0 THEN 1 ELSE 2 * Pow2(n - 1)

RECURSIVE FloorLog2(_)
FloorLog2(a) == IF a < 2 THEN 0 ELSE 1 + FloorLog2(a \div 2)

Abs(x) == IF x < 0 THEN -x ELSE x

\* the function f as a table: each of its values is computed once, when the table
\* is built, and looked up afterwards
Enumerated(f) == f @@ <<>>

\* the powers of two an f32's exponent and mantissa need
Pow2Table == Enumerated([n \in 0..30 |-> Pow2(n)])

\* ---------------------------------------------------------------- f32
\* every f32 that is neither an integer of magnitude below 2^24 nor one of the
\* four values named below (a fraction, a denormal, a larger number, a negative
\* infinity) is carried as this one value
Unmodelled == Pow2Table[30]

\* 2^-75: positive and finite; its square, 2^-150, rounds to 0.0
Tiny == Unmodelled + 1

\* 2^64: finite; its square, 2^128, rounds to +infinity
Huge == Unmodelled + 2

\* f32::INFINITY
Infinity == Unmodelled + 3

\* f32::NAN
NaN == Unmodelled + 4

\* the SQL NULL in a REAL column or parameter
Null == Unmodelled + 5

\* x is an f32 carried as the integer it denotes
IsInteger(x) == x < Unmodelled

\* x * y in f32
MulF(x, y) ==
    IF IsInteger(x) /\ IsInteger(y) THEN x * y
    ELSE IF x = NaN \/ y = NaN THEN NaN
    ELSE IF x = Unmodelled \/ y = Unmodelled THEN Unmodelled
    ELSE IF x = 0 \/ y = 0 THEN (IF Infinity \in {x, y} THEN NaN ELSE 0)
    ELSE IF x = 1 THEN y
    ELSE IF y = 1 THEN x
    ELSE IF x = Tiny /\ y = Tiny THEN 0
    ELSE IF x \in {Huge, Infinity} /\ y \in {Huge, Infinity} THEN Infinity
    ELSE IF Infinity \in {x, y} /\ (x > 0 /\ y > 0) THEN Infinity
    ELSE Unmodelled

\* x + y in f32
AddF(x, y) ==
    IF IsInteger(x) /\ IsInteger(y) THEN x + y
    ELSE IF x = NaN \/ y = NaN THEN NaN
    ELSE IF x = Unmodelled \/ y = Unmodelled THEN Unmodelled
    ELSE IF Infinity \in {x, y} THEN Infinity
    ELSE IF x = Tiny /\ y = Tiny THEN Unmodelled
    ELSE IF x = Tiny THEN (IF y = 0 THEN Tiny ELSE y)
    ELSE IF y = Tiny THEN (IF x = 0 THEN Tiny ELSE x)
    ELSE IF x = Huge /\ y = Huge THEN Unmodelled
    ELSE Huge

\* ---------------------------------------------------------------- codec
\* IEEE-754 single precision fields of the f32 x
F32Bits(x) ==
    IF x = 0 THEN [sign |-> 0, exp |-> 0, mant |-> 0]
    ELSE IF x = Tiny THEN [sign |-> 0, exp |-> 127 - 75, mant |-> 0]
    ELSE IF x = Huge THEN [sign |-> 0, exp |-> 127 + 64, mant |-> 0]
    ELSE IF x = Infinity THEN [sign |-> 0, exp |-> 255, mant |-> 0]
    ELSE IF x = NaN THEN [sign |-> 0, exp |-> 255, mant |-> Pow2Table[22]]
    ELSE LET a == Abs(x)
             e == FloorLog2(a)
         IN  [sign |-> IF x < 0 THEN 1 ELSE 0,
              exp  |-> 127 + e,
              mant |-> (a - Pow2(e)) * Pow2(23 - e)]

\* the four bytes of an f32, most significant first (big-endian)
F32ToBytesBigEndian(x) ==
    LET b == F32Bits(x)
    IN  << b.sign * 128 + (b.exp \div 2),
           (b.exp % 2) * 128 + (b.mant \div 65536),
           (b.mant \div 256) % 256,
           b.mant % 256 >>

\* the four bytes of an f32 in memory order (little-endian)
F32ToBytes(x) ==
    LET b == F32Bits(x)
    IN  << b.mant % 256,
           (b.mant \div 256) % 256,
           (b.exp % 2) * 128 + (b.mant \div 65536),
           b.sign * 128 + (b.exp \div 2) >>

\* the f32 that four bytes in memory order denote
F32FromBytes(b) ==
    LET sign == b[4] \div 128
        exp  == (b[4] % 128) * 2 + (b[3] \div 128)
        mant == (b[3] % 128) * 65536 + b[2] * 256 + b[1]
        sig  == Pow2Table[23] + mant
        mag  == IF exp = 0 /\ mant = 0 THEN 0
                ELSE IF exp = 255 THEN (IF mant = 0 THEN Infinity ELSE NaN)
                ELSE IF exp = 127 - 75 /\ mant = 0 THEN Tiny
                ELSE IF exp = 127 + 64 /\ mant = 0 THEN Huge
                ELSE IF exp < 127 \/ exp > 150 THEN Unmodelled
                ELSE IF sig % Pow2Table[150 - exp] # 0 THEN Unmodelled
                ELSE sig \div Pow2Table[150 - exp]
    IN  IF sign = 0 \/ mag = NaN THEN mag
        ELSE IF IsInteger(mag) THEN -mag
        ELSE Unmodelled

\* the bytes of every modelled component
F32Table ==
    Enumerated([x \in ((-MaxVal)..MaxVal) \cup {Tiny, Huge, Infinity, NaN} |->
                   F32ToBytes(x)])

RECURSIVE serialize_vector(_)
serialize_vector(v) ==
    IF v = <<>> THEN <<>>
    ELSE F32Table[Head(v)] \o serialize_vector(Tail(v))

\* the value of every byte pattern that F32Table holds
F32Values ==
    Enumerated([b \in {F32Table[x] : x \in DOMAIN F32Table} |-> F32FromBytes(b)])

\* four bytes reinterpreted as an f32
F32Cast(b) == IF b \in DOMAIN F32Values THEN F32Values[b] ELSE F32FromBytes(b)

\* the address, modulo 4, of a byte buffer the program or the engine has
\* allocated: an empty Vec<u8> holds no allocation and points at the dangling
\* address 1 (the alignment of u8); any other buffer comes from malloc, which
\* aligns to 8 bytes or more
OwnedAddress(bytes) == IF bytes = <<>> THEN 1 ELSE 0

\* a cast that does not look at the address (an unaligned read)
CastUnaligned(address) == FALSE

\* bytemuck::cast_slice::<u8, f32> fails, and so panics, on a slice whose address
\* is not a multiple of the alignment of f32, whatever its length
CastPanics(address) == address % 4 # 0

\* deserialize_vector on the slice of these bytes at this address (modulo 4)
deserialize_vector(bytes, address) ==
    IF Len(bytes) % 4 # 0
    THEN [err |-> "InvalidVector", vec |-> <<>>]
    ELSE IF CastPanics(address)
    THEN [err |-> "panic", vec |-> <<>>]
    ELSE [err |-> "ok",
          vec |-> [i \in 1..(Len(bytes) \div 4) |->
                      F32Cast(SubSeq(bytes, 4 * i - 3, 4 * i))]]

\* ---------------------------------------------------------------- kernel
RECURSIVE SumSq(_)
SumSq(v) ==
    IF v = <<>> THEN 0 ELSE AddF(MulF(Head(v), Head(v)), SumSq(Tail(v)))

\* L2 norm; the value sqrt(s) is carried as s
vector_norm(v) == SumSq(v)

\* width of the chunks of the kernel's main loop
ChunkWidth == 8

\* the three accumulators over indices lo..hi-1 (0-based), continuing from acc
RECURSIVE Accumulate(_, _, _, _, _)
Accumulate(a, b, lo, hi, acc) ==
    IF lo >= hi THEN acc
    ELSE Accumulate(a, b, lo + 1, hi,
                    [dot    |-> AddF(acc.dot, MulF(a[lo + 1], b[lo + 1])),
                     norm_a |-> AddF(acc.norm_a, MulF(a[lo + 1], a[lo + 1])),
                     norm_b |-> AddF(acc.norm_b, MulF(b[lo + 1], b[lo + 1]))])

ZeroAcc == [dot |-> 0, norm_a |-> 0, norm_b |-> 0]

\* the similarity 0.0
ZeroSim == [num |-> 0, den2 |-> 1]

\* the similarity NaN
NaNSim == [num |-> NaN, den2 |-> 1]

\* a similarity the model does not carry
UnmodelledSim == [num |-> Unmodelled, den2 |-> 1]

\* the division without the test for a zero norm
QuotientUnchecked(acc) ==
    [num |-> acc.dot, den2 |-> acc.norm_a * acc.norm_b]

\* dot / (sqrt(norm_a) * sqrt(norm_b)), or 0.0 when a squared norm is zero.  With
\* an infinite squared norm the denominator is infinite: an infinite dot then
\* gives NaN, a finite one 0.0; a NaN anywhere gives NaN (NaN == 0.0 is false).
Quotient(acc) ==
    IF acc.norm_a = 0 \/ acc.norm_b = 0 THEN ZeroSim
    ELSE IF IsInteger(acc.dot) /\ IsInteger(acc.norm_a) /\ IsInteger(acc.norm_b)
    THEN [num |-> acc.dot, den2 |-> acc.norm_a * acc.norm_b]
    ELSE IF NaN \in {acc.dot, acc.norm_a, acc.norm_b} THEN NaNSim
    ELSE IF {Unmodelled, Tiny, Huge} \cap {acc.dot, acc.norm_a, acc.norm_b} # {}
    THEN UnmodelledSim
    ELSE IF acc.dot = Infinity
    THEN (IF Infinity \in {acc.norm_a, acc.norm_b} THEN NaNSim ELSE UnmodelledSim)
    ELSE ZeroSim

\* the chunked kernel without its remainder loop
AccumulatorsWithoutRemainder(a, b) ==
    Accumulate(a, b, 0, (Len(a) \div ChunkWidth) * ChunkWidth, ZeroAcc)

\* the accumulators of cosine_similarity_optimized after its two loops: the main
\* loop over 0 .. chunks * 8, the remainder loop over chunks * 8 .. len
OptimizedAccumulators(a, b) ==
    LET len == Len(a)
        chunks == len \div ChunkWidth
        main == Accumulate(a, b, 0, chunks * ChunkWidth, ZeroAcc)
    IN  Accumulate(a, b, chunks * ChunkWidth, len, main)

cosine_similarity_optimized(a, b) == Quotient(OptimizedAccumulators(a, b))

\* the accumulators of cosine_similarity_scalar after its one loop over 0..len
ScalarAccumulators(a, b) == Accumulate(a, b, 0, Len(a), ZeroAcc)

cosine_similarity_scalar(a, b) == Quotient(ScalarAccumulators(a, b))

\* lane j of a SIMD kernel's accumulators after its main loop, from chunk i: the
\* lane takes index i * width + j of every chunk (a fused multiply-add)
RECURSIVE Lane(_, _, _, _, _, _, _)
Lane(a, b, width, j, i, chunks, acc) ==
    IF i >= chunks THEN acc
    ELSE Lane(a, b, width, j, i + 1, chunks,
              Accumulate(a, b, i * width + j, i * width + j + 1, acc))

\* the sum of the lanes j..width-1 added to acc.  The targets add the lanes in
\* different orders; sums of the modelled values are exact in f32, so the order
\* does not change them.
RECURSIVE HorizontalSum(_, _, _, _)
HorizontalSum(lanes, j, width, acc) ==
    IF j >= width THEN acc
    ELSE HorizontalSum(lanes, j + 1, width,
                       [dot    |-> AddF(acc.dot, lanes[j].dot),
                        norm_a |-> AddF(acc.norm_a, lanes[j].norm_a),
                        norm_b |-> AddF(acc.norm_b, lanes[j].norm_b)])

\* cosine_similarity_avx2 (width 8) and cosine_similarity_neon (width 4): the main
\* loop in lanes, their horizontal sum, the scalar remainder loop, the quotient
cosine_similarity_simd(a, b, width) ==
    LET len == Len(a)
        chunks == len \div width
        lanes == [j \in 0..(width - 1) |-> Lane(a, b, width, j, 0, chunks, ZeroAcc)]
        sum == HorizontalSum(lanes, 0, width, ZeroAcc)
    IN  Quotient(Accumulate(a, b, chunks * width, len, sum))

\* what a build is compiled for: x86_64 with avx2, aarch64 with neon, or neither
Targets == {"avx2", "neon", "other"}

\* cosine_similarity as compiled for a target
cosine_similarity_for(target, a, b) ==
    IF Len(a) # Len(b)
    THEN [err |-> "DimensionMismatch", expected |-> Len(a), actual |-> Len(b),
          sim |-> ZeroSim]
    ELSE [err |-> "ok", expected |-> 0, actual |-> 0,
          sim |-> IF target = "avx2" THEN cosine_similarity_simd(a, b, 8)
                  ELSE IF target = "neon" THEN cosine_similarity_simd(a, b, 4)
                  ELSE cosine_similarity_optimized(a, b)]

\* cosine_similarity in the build the store is modelled on, the one with no SIMD
\* target feature
cosine_similarity(a, b) == cosine_similarity_for("other", a, b)

\* s <= t for similarities s = s.num / sqrt(s.den2), t likewise, in the order of
\* ORDER BY: the engine holds a NaN as NULL, which sorts below every number
SimLeq(s, t) ==
    IF s.num = NaN THEN TRUE
    ELSE IF t.num = NaN THEN FALSE
    ELSE IF s.num <= 0 /\ t.num >= 0 THEN TRUE
    ELSE IF s.num > 0 /\ t.num < 0 THEN FALSE
    ELSE IF s.num >= 0
    THEN s.num * s.num * t.den2 <= t.num * t.num * s.den2
    ELSE s.num * s.num * t.den2 >= t.num * t.num * s.den2

\* ---------------------------------------------------------------- inputs
Uniform(a, n) == [i \in 1..n |-> a]
Axis(a, j, n) == [i \in 1..n |-> IF i = j THEN a ELSE 0]

\* the vectors of the configured dimension that are stored and searched for: the
\* zero vector, the unit vectors along the first and the last axis, the all-ones
\* vector, and multiples of the first unit vector
Vectors ==
    {Uniform(a, Dim) : a \in 0..1}
        \cup {Axis(1, j, Dim) : j \in {1, Dim}}
        \cup {Axis(a, 1, Dim) : a \in 2..MaxVal}

\* a vector of the configured dimension whose first component is x, the others 1
FirstIs(x) == [i \in 1..Dim |-> IF i = 1 THEN x ELSE 1]

\* vectors with a NaN or an infinite component
NonFiniteVectors == {FirstIs(NaN), FirstIs(Infinity), Uniform(Infinity, Dim)}

\* finite vectors of every magnitude: all zero, ordinary, very small, very large
FiniteVectors ==
    {Uniform(0, Dim), Uniform(1, Dim), Axis(MaxVal, 1, Dim),
     Uniform(Tiny, Dim), Uniform(Huge, Dim)}

\* the k of a search: none, one, two, more than the store can hold
Ks == {0, 1, 2, MaxId + 1}

\* the thresholds of a threshold search, in tenths: 0.0, 0.5, 0.9 and 1.0
Thresholds == {0, 5, 9, 10}

\* vectors whose length is not the configured dimension
WrongVectors == {<<>>, Uniform(1, Dim + 1)}

NoMeta == "NULL"

\* insert's arguments under Spec: every component value occurs in a vector,
\* metadata is given and absent, and a vector can have a wrong length
StoreInputs ==
    {[vector |-> Uniform(0, Dim), metadata |-> NoMeta],
     [vector |-> Uniform(1, Dim), metadata |-> "m"]}
        \cup {[vector |-> Axis(a, 1, Dim), metadata |-> NoMeta] : a \in 2..MaxVal}
        \cup {[vector |-> w, metadata |-> NoMeta] : w \in WrongVectors}

\* insert's arguments under SearchSpec
SearchInputs == {[vector |-> v, metadata |-> NoMeta] : v \in Vectors}

\* insert_batch's arguments: lists of up to MaxBatch vectors that alternate between
\* two vectors of the configured dimension, with at most one vector of a wrong
\* length at any position, and a metadata list of the same length or one longer
BatchGood(j) == IF j % 2 = 0 THEN Uniform(1, Dim) ELSE Axis(MaxVal, 1, Dim)
BatchBad == Uniform(1, Dim + 1)
BatchVectors ==
    {[i \in 1..n |-> IF i = p THEN BatchBad ELSE BatchGood(i + s)] :
        n \in 0..MaxBatch, p \in 0..MaxBatch, s \in 0..1}
BatchMetas(vectors) ==
    {[i \in 1..n |-> NoMeta] : n \in Len(vectors)..(Len(vectors) + 1)}

\* ---------------------------------------------------------------- engine
EmptyRows == <<>>
NoTx == [open |-> FALSE, rows |-> EmptyRows, seq |-> 0]

\* what the connection reads: its open transaction's view, else the committed db
View == IF tx.open THEN [rows |-> tx.rows, seq |-> tx.seq]
        ELSE [rows |-> rows, seq |-> seq]

\* rowid of the next row of a table declared INTEGER PRIMARY KEY only: one more
\* than the largest rowid the table holds now
NextRowidReusing(db) == SetMax(DOMAIN db.rows) + 1

\* rowid of the next row of a table declared INTEGER PRIMARY KEY AUTOINCREMENT:
\* one more than the largest rowid the table has ever held
NextRowid(db) == Max(db.seq, SetMax(DOMAIN db.rows)) + 1

\* a binding that hands a NaN to the engine as it is
BindRealKeepingNaN(x) == x

\* the value the engine takes for an f32 bound to a parameter: it holds no NaN and
\* takes one as NULL
BindReal(x) == IF x = NaN THEN Null ELSE x

\* the column norm is declared REAL NOT NULL: a row with a NULL norm is refused
NotNullFails(norm) == norm = Null

\* INSERT INTO vectors (vector, norm, metadata) VALUES (?1, ?2, ?3)
ExecInsert(db, bytes, norm, meta) ==
    LET id == NextRowid(db)
    IN  [rows |-> [i \in DOMAIN db.rows \cup {id} |->
                      IF i = id
                      THEN [vector |-> bytes, norm |-> norm, metadata |-> meta]
                      ELSE db.rows[i]],
         seq  |-> id]

\* DELETE FROM vectors WHERE id <= ?1
ExecDeleteUpTo(db, id) ==
    [rows |-> [i \in {j \in DOMAIN db.rows : j > id} |-> db.rows[i]],
     seq |-> db.seq]

\* DELETE FROM vectors WHERE id = ?1
ExecDelete(db, id) ==
    [rows |-> [i \in DOMAIN db.rows \ {id} |-> db.rows[i]], seq |-> db.seq]

\* SELECT MAX(id) FROM vectors: the largest id, not the number of rows
CountMaxRowid(db) == SetMax(DOMAIN db.rows)

\* SELECT COUNT(*) FROM vectors
CountRows(db) == Cardinality(DOMAIN db.rows)

\* norm_tolerance of search, in tenths (0.3)
NormToleranceTenths == 3

\* norm >= query_norm * (1 - t): a window with no upper end
NormAtLeast(norm, query_norm, t) ==
    100 * norm >= (10 - t) * (10 - t) * query_norm

\* no norm filter at all
NormAny(norm, query_norm, t) == TRUE

\* norm BETWEEN query_norm * (1 - t) AND query_norm * (1 + t), t in tenths; norm
\* and query_norm are carried as their squares, so both sides are squared
\* An infinite query_norm makes both ends infinite, which only an infinite norm
\* lies between; a NaN query_norm makes both ends NULL, and no norm lies between.
NormBetween(norm, query_norm, t) ==
    IF IsInteger(norm) /\ IsInteger(query_norm)
    THEN /\ 100 * norm >= (10 - t) * (10 - t) * query_norm
         /\ 100 * norm <= (10 + t) * (10 + t) * query_norm
    ELSE norm = Infinity /\ query_norm = Infinity

\* the body of the scalar function registered as cosine_similarity(blob, blob)
SqlCosineSimilarityEval(a_bytes, b_bytes) ==
    LET a == deserialize_vector(a_bytes, OwnedAddress(a_bytes))
        b == deserialize_vector(b_bytes, OwnedAddress(b_bytes))
    IN  IF a.err # "ok" THEN [err |-> a.err, sim |-> ZeroSim]
        ELSE IF b.err # "ok" THEN [err |-> b.err, sim |-> ZeroSim]
        ELSE LET c == cosine_similarity(a.vec, b.vec)
             IN  [err |-> c.err, sim |-> c.sim]

\* the blobs of the vectors of the configured dimension that are stored and
\* searched for
KnownBlobs ==
    {serialize_vector(v) : v \in Vectors \cup FiniteVectors \cup NonFiniteVectors}

\* what the function returns for every pair of them, computed once
KnownSimilarity ==
    Enumerated([p \in KnownBlobs \X KnownBlobs |->
                   SqlCosineSimilarityEval(p[1], p[2])])

\* the scalar function, which is deterministic: its value for a pair of blobs is
\* looked up when it has been computed before
SqlCosineSimilarity(a_bytes, b_bytes) ==
    IF <<a_bytes, b_bytes>> \in DOMAIN KnownSimilarity
    THEN KnownSimilarity[<<a_bytes, b_bytes>>]
    ELSE SqlCosineSimilarityEval(a_bytes, b_bytes)

\* WHERE norm BETWEEN ?3 AND ?4: the ids of the rows the query evaluates
Candidates(db, query_norm, t) ==
    {id \in DOMAIN db.rows : NormBetween(db.rows[id].norm, query_norm, t)}

\* LIMIT n with no ORDER BY: the scored rows in rowid order
RECURSIVE OrderByRowidLimit(_, _, _)
OrderByRowidLimit(ids, score, n) ==
    IF n = 0 \/ ids = {} THEN {<<>>}
    ELSE LET c == CHOOSE d \in ids : \A e \in ids : d <= e
         IN  {<<[id |-> c, similarity |-> score[c]]>> \o r :
                 r \in OrderByRowidLimit(ids \ {c}, score, n - 1)}

\* ORDER BY similarity DESC LIMIT n over the scored rows: every order the engine
\* may produce (rows of equal similarity come in any order)
RECURSIVE OrderByDescLimit(_, _, _)
RECURSIVE OrderByDescLimitRepeating(_, _, _)
OrderByDescLimitRepeating(ids, score, n) ==
    IF n = 0 \/ ids = {} THEN {<<>>}
    ELSE UNION {
        {<<[id |-> c, similarity |-> score[c]]>> \o r :
            r \in OrderByDescLimitRepeating(ids, score, n - 1)} :
        c \in {d \in ids : \A e \in ids : SimLeq(score[e], score[d])}}

OrderByDescLimit(ids, score, n) ==
    IF n = 0 \/ ids = {} THEN {<<>>}
    ELSE UNION {
        {<<[id |-> c, similarity |-> score[c]]>> \o r :
            r \in OrderByDescLimit(ids \ {c}, score, n - 1)} :
        c \in {d \in ids : \A e \in ids : SimLeq(score[e], score[d])}}

\* the rows the SELECT of search evaluates, each with what the scalar function
\* returns for it
ScoreCandidates(db, query_bytes, query_norm, t) ==
    [id \in Candidates(db, query_norm, t) |->
        SqlCosineSimilarity(db.rows[id].vector, query_bytes)]

\* a limit that takes 0 for no limit at all (a negative LIMIT is no limit)
LimitOfZeroUnbounded(k) == IF k = 0 THEN -1 ELSE k

\* the value bound to LIMIT ?2: k as i64, which is k for every k below 2^63
LimitOf(k) == k

\* the SELECT of search over the evaluated rows: with LIMIT 0 the engine scans no
\* row; otherwise an error of the scalar function on a scanned row fails the
\* statement
SelectSimilar(eval, k) ==
    IF LimitOf(k) = 0
    THEN [err |-> "ok", results |-> {<<>>}]
    ELSE IF \E id \in DOMAIN eval : eval[id].err # "ok"
    THEN [err |-> "Sqlite", results |-> {<<>>}]
    ELSE [err |-> "ok",
          results |-> OrderByDescLimit(DOMAIN eval,
                                       [id \in DOMAIN eval |-> eval[id].sim],
                                       LimitOf(k))]

\* ---------------------------------------------------------------- results
NoCall ==
    [op |-> "new", vectors |-> <<>>, metadata |-> <<>>, id |-> 0, k |-> 0,
     err |-> "ok", expected |-> 0, actual |-> 0, ids |-> <<>>,
     found |-> FALSE, vec |-> <<>>, count |-> 0, results |-> <<>>,
     threshold |-> 0, dimension |-> 0, afterFailedBatch |-> FALSE,
     storage_mode |-> "InMemory", instance |-> TRUE]

\* no insert_batch call is in progress
NoBatch == [active |-> FALSE, vectors |-> <<>>, metadata |-> <<>>, i |-> 0,
            ids |-> <<>>]

\* no function of the codec or the kernel has been called
NoProbe ==
    [op |-> "none", v |-> <<>>, a |-> <<>>, b |-> <<>>, target |-> "other",
     bytes |-> <<>>, address |-> 0, err |-> "ok", expected |-> 0, actual |-> 0,
     vec |-> <<>>, sim |-> ZeroSim, optimized |-> ZeroAcc, scalar |-> ZeroAcc]

\* the record of a call, before its result is filled in
Call(op) ==
    [NoCall EXCEPT !.op = op,
                   !.afterFailedBatch =
                       (last.op = "insert_batch" /\ last.err # "ok")]

\* the error with its two fields exchanged
DimensionMismatchSwapped(c, actual) ==
    [c EXCEPT !.err = "DimensionMismatch", !.expected = actual,
              !.actual = dimension]

DimensionMismatch(c, actual) ==
    [c EXCEPT !.err = "DimensionMismatch", !.expected = dimension,
              !.actual = actual]

\* a statement run outside a transaction commits at once (autocommit); inside
\* an open transaction it changes that transaction's view only
Write(db) ==
    IF tx.open
    THEN /\ tx' = [open |-> TRUE, rows |-> db.rows, seq |-> db.seq]
         /\ UNCHANGED <<rows, seq>>
    ELSE /\ rows' = db.rows
         /\ seq' = db.seq
         /\ UNCHANGED tx

\* ---------------------------------------------------------------- threads
Threads == 1..NThreads

\* a thread that has opened its instance and has all its inserts to do
ThreadStart ==
    [pc |-> "ready", left |-> NInserts, ids |-> <<>>, busy |-> 0,
     pending |-> [rows |-> EmptyRows, seq |-> 0]]

\* the vector a thread inserts
ThreadVector(t) ==
    IF t = 1 THEN Axis(1, 1, Dim)
    ELSE IF t = 2 THEN Axis(1, Dim, Dim)
    ELSE Uniform(1, Dim)

\* every thread has returned from its last insert
Joined == \A t \in Threads : threads[t].pc = "ready" /\ threads[t].left = 0

\* a connection that takes the write lock without looking at it
WriteLockIgnored(lock) == TRUE

\* the file's write lock can be taken: no connection holds it
WriteLockFree(lock) == lock = 0

\* ---------------------------------------------------------------- operations
Init ==
    /\ rows = EmptyRows
    /\ seq = 0
    /\ tx = NoTx
    /\ issued = {}
    /\ last = NoCall
    /\ dimension = Dim
    /\ write_lock = 0
    /\ threads = [t \in Threads |-> ThreadStart]
    /\ batch = NoBatch
    /\ probe = NoProbe

Insert(offered) ==
    \E input \in offered :
        LET vector == input.vector
            metadata == input.metadata
            c == [Call("insert") EXCEPT !.vectors = <<vector>>,
                                        !.metadata = <<metadata>>]
        IN  IF Len(vector) # dimension
            THEN /\ last' = DimensionMismatch(c, Len(vector))
                 /\ UNCHANGED <<rows, seq, tx, issued, dimension, write_lock, threads, batch, probe>>
            ELSE /\ NextRowid(View) <= MaxId
                 /\ LET vector_bytes == serialize_vector(vector)
                        norm == BindReal(vector_norm(vector))
                        db == ExecInsert(View, vector_bytes, norm, metadata)
                    IN  IF NotNullFails(norm)
                        THEN \* the statement fails and changes nothing
                             /\ last' = [c EXCEPT !.err = "Sqlite"]
                             /\ UNCHANGED <<rows, seq, tx, issued, dimension,
                                            write_lock, threads, batch, probe>>
                        ELSE /\ Write(db)
                             /\ issued' = issued \cup {db.seq}
                             /\ last' = [c EXCEPT !.ids = <<db.seq>>]
                             /\ UNCHANGED <<dimension, write_lock, threads, batch, probe>>

\* SELECT vector FROM vectors WHERE id = ?1, and the decoding of the row found
GetVector(db, id) ==
    IF id \in DOMAIN db.rows
    THEN LET d == deserialize_vector(db.rows[id].vector,
                                     OwnedAddress(db.rows[id].vector))
         IN  [err |-> d.err, found |-> d.err = "ok", vec |-> d.vec]
    ELSE [err |-> "ok", found |-> FALSE, vec |-> <<>>]

Get ==
    \E id \in 0..(MaxId + 1) :
        LET g == GetVector(View, id)
        IN  /\ last' = [Call("get") EXCEPT !.id = id, !.err = g.err,
                                           !.found = g.found, !.vec = g.vec]
            /\ UNCHANGED <<rows, seq, tx, issued, dimension, write_lock, threads, batch, probe>>

\* Ok(deleted >= 0)
DeletedAlways(deleted) == deleted >= 0

\* Ok(deleted > 0)
Deleted(deleted) == deleted > 0

Delete ==
    \E id \in 0..(MaxId + 1) :
        LET deleted == IF id \in DOMAIN View.rows THEN 1 ELSE 0
        IN  /\ Write(ExecDelete(View, id))
            /\ last' = [Call("delete") EXCEPT !.id = id, !.found = Deleted(deleted)]
            /\ UNCHANGED <<issued, dimension, write_lock, threads, batch, probe>>

Count ==
    /\ last' = [Call("count") EXCEPT !.count = CountRows(View)]
    /\ UNCHANGED <<rows, seq, tx, issued, dimension, write_lock, threads, batch, probe>>

\* the loop with ids.insert(0, ..) for ids.push(..): the ids come back in
\* reverse order
RECURSIVE BatchLoopPrepending(_, _, _, _, _)
BatchLoopPrepending(db, vectors, metadata, i, ids) ==
    IF i > Min(Len(vectors), Len(metadata))
    THEN [err |-> "ok", actual |-> 0, db |-> db, ids |-> ids]
    ELSE IF Len(vectors[i]) # dimension
    THEN [err |-> "DimensionMismatch", actual |-> Len(vectors[i]),
          db |-> db, ids |-> ids]
    ELSE LET vector_bytes == serialize_vector(vectors[i])
             norm == BindReal(vector_norm(vectors[i]))
             next == ExecInsert(db, vector_bytes, norm, metadata[i])
         IN  IF NotNullFails(norm)
             THEN [err |-> "Sqlite", actual |-> 0, db |-> db, ids |-> ids]
             ELSE BatchLoopPrepending(next, vectors, metadata, i + 1,
                                      <<next.seq>> \o ids)

\* the loop of insert_batch over zip(vectors, metadata), from position i, inside
\* the transaction whose view is db
RECURSIVE BatchLoop(_, _, _, _, _)
BatchLoop(db, vectors, metadata, i, ids) ==
    IF i > Min(Len(vectors), Len(metadata))
    THEN [err |-> "ok", actual |-> 0, db |-> db, ids |-> ids]
    ELSE IF Len(vectors[i]) # dimension
    THEN [err |-> "DimensionMismatch", actual |-> Len(vectors[i]),
          db |-> db, ids |-> ids]
    ELSE LET vector_bytes == serialize_vector(vectors[i])
             norm == BindReal(vector_norm(vectors[i]))
             next == ExecInsert(db, vector_bytes, norm, metadata[i])
         IN  IF NotNullFails(norm)
             THEN [err |-> "Sqlite", actual |-> 0, db |-> db, ids |-> ids]
             ELSE BatchLoop(next, vectors, metadata, i + 1, Append(ids, next.seq))

\* tx.commit(): the transaction's view becomes the committed database
CommitTransaction(committed, view) ==
    [rows |-> view.rows, seq |-> view.seq, tx |-> NoTx]

\* a drop behaviour of commit: what the failed batch wrote stays
DropCommits(committed, view) ==
    [rows |-> view.rows, seq |-> view.seq, tx |-> NoTx]

\* a drop behaviour of ignore: the transaction is left open on the connection
DropLeavesOpen(committed, view) ==
    [rows |-> committed.rows, seq |-> committed.seq,
     tx |-> [open |-> TRUE, rows |-> view.rows, seq |-> view.seq]]

\* a Transaction dropped without commit (the early return): its drop behaviour is
\* to roll back, which restores the committed database and closes the transaction
DropTransaction(committed, view) ==
    [rows |-> committed.rows, seq |-> committed.seq, tx |-> NoTx]

\* vectors.len() > metadata.len(): a longer metadata list is let through
BatchMetadataShorter(vectors, metadata) == Len(metadata) < Len(vectors)

\* vectors.len() != metadata.len()
BatchLengthMismatch(vectors, metadata) == Len(vectors) # Len(metadata)

\* insert_batch(vectors, metadata) for a list of vectors of this set
InsertBatchFor(batches) ==
    \E vectors \in batches : \E metadata \in BatchMetas(vectors) :
        LET c == [Call("insert_batch") EXCEPT !.vectors = vectors,
                                              !.metadata = metadata]
        IN  IF BatchLengthMismatch(vectors, metadata)
            THEN /\ last' = [c EXCEPT !.err = "InvalidVector"]
                 /\ UNCHANGED <<rows, seq, tx, issued, dimension, write_lock, threads, batch, probe>>
            ELSE IF tx.open
            THEN \* BEGIN fails: cannot start a transaction within a transaction
                 /\ last' = [c EXCEPT !.err = "Sqlite"]
                 /\ UNCHANGED <<rows, seq, tx, issued, dimension, write_lock, threads, batch, probe>>
            ELSE LET committed == [rows |-> rows, seq |-> seq]
                     r == BatchLoop(committed, vectors, metadata, 1, <<>>)
                     end == IF r.err = "ok"
                            THEN CommitTransaction(committed, r.db)
                            ELSE DropTransaction(committed, r.db)
                 IN  /\ r.db.seq <= MaxId
                     /\ rows' = end.rows
                     /\ seq' = end.seq
                     /\ tx' = end.tx
                     /\ UNCHANGED <<dimension, write_lock, threads, batch, probe>>
                     /\ IF r.err = "ok"
                        THEN /\ issued' = issued \cup {r.ids[j] : j \in DOMAIN r.ids}
                             /\ last' = [c EXCEPT !.ids = r.ids]
                        ELSE /\ issued' = issued
                             /\ last' = IF r.err = "DimensionMismatch"
                                        THEN DimensionMismatch(c, r.actual)
                                        ELSE [c EXCEPT !.err = r.err]

InsertBatch == InsertBatchFor(BatchVectors)

\* a query is longer than config.dimension
QueryLongerThanDimension(query) == Len(query) > dimension

\* query.len() != self.config.dimension
QueryLengthMismatch(query) == Len(query) # dimension

\* the closure of query_map and collect: every row the statement yields is read
\* as (i64, f32); a similarity the engine holds as NULL (the function returned
\* NaN) has no f32 reading, which fails the call
CollectRows(yielded) ==
    IF \E i \in DOMAIN yielded : yielded[i].similarity.num = NaN
    THEN [err |-> "Sqlite", results |-> <<>>]
    ELSE [err |-> "ok", results |-> yielded]

\* search(query, k) for a query and a k of these sets
SearchOn(db, queries, ks) ==
    \E query \in queries :
        LET c == [Call("search") EXCEPT !.vectors = <<query>>]
            query_bytes == serialize_vector(query)
            query_norm == BindReal(vector_norm(query))
            eval == ScoreCandidates(db, query_bytes, query_norm,
                                    NormToleranceTenths)
        IN  /\ IF QueryLengthMismatch(query)
               THEN \E k \in ks :
                        last' = DimensionMismatch([c EXCEPT !.k = k], Len(query))
               ELSE \E k \in ks :
                        LET sel == SelectSimilar(eval, k)
                        IN  IF sel.err # "ok"
                            THEN last' = [c EXCEPT !.k = k, !.err = sel.err]
                            ELSE \E yielded \in sel.results :
                                     LET r == CollectRows(yielded)
                                     IN  last' = [c EXCEPT !.k = k, !.err = r.err,
                                                           !.results = r.results]
            /\ UNCHANGED <<rows, seq, tx, issued, dimension, write_lock, threads, batch, probe>>

\* search(query, k) of the connection's own view, for a query and a k of these sets
SearchFor(queries, ks) == SearchOn(View, queries, ks)

Search == SearchFor(Vectors \cup WrongVectors, Ks)

\* the cap of the norm tolerance of a threshold search, in tenths (0.3)
ThresholdToleranceCapTenths == 3

\* (1.0 - threshold).min(0.3), in tenths
ThresholdTolerance(threshold) == Min(10 - threshold, ThresholdToleranceCapTenths)

\* conn.prepare of the SELECT of search_with_threshold: the statement has a HAVING
\* clause but neither a GROUP BY clause nor an aggregate function, and the engine
\* refuses to compile it ("HAVING clause on a non-aggregate query")
PrepareSelectHaving == [err |-> "Sqlite"]

SearchWithThreshold ==
    \E query \in Vectors \cup WrongVectors, k \in Ks, threshold \in Thresholds :
        LET c == [Call("search_with_threshold") EXCEPT !.vectors = <<query>>,
                                                       !.k = k,
                                                       !.threshold = threshold]
            query_bytes == serialize_vector(query)
            query_norm == vector_norm(query)
            norm_tolerance == ThresholdTolerance(threshold)
            stmt == PrepareSelectHaving
        IN  /\ IF QueryLengthMismatch(query)
               THEN last' = DimensionMismatch(c, Len(query))
               ELSE last' = [c EXCEPT !.err = stmt.err]
            /\ UNCHANGED <<rows, seq, tx, issued, dimension, write_lock, threads, batch, probe>>

\* stats: count() and the configured dimension; size_bytes, which comes from the
\* engine's page accounting, is not modelled
Stats ==
    /\ last' = [Call("stats") EXCEPT !.count = CountRows(View),
                                     !.dimension = dimension]
    /\ UNCHANGED <<rows, seq, tx, issued, dimension, write_lock, threads, batch, probe>>

\* the dimension of the configuration handed to new_persistent: the one the file
\* was created with, or one more
Dimensions == {Dim, Dim + 1}

\* CREATE TABLE / CREATE INDEX without IF NOT EXISTS: fails on an object that exists
CreatePlain(exists) == IF exists THEN "Sqlite" ELSE "ok"

\* CREATE TABLE IF NOT EXISTS / CREATE INDEX IF NOT EXISTS: creates the object when
\* it is absent, does nothing when it exists
CreateIfNotExists(exists) == "ok"

\* new_persistent on the file of the instance before, which is dropped: its
\* connection closes, and a transaction it had open is rolled back.  The file holds
\* the table, the index, the rows and sqlite_sequence; the new instance takes its
\* dimension from the configuration it is given.
NewPersistent ==
    \E d \in Dimensions :
        LET c == Call("new_persistent")
            schema == CreateIfNotExists(TRUE)
            index == CreateIfNotExists(TRUE)
        IN  /\ IF schema # "ok" \/ index # "ok"
               THEN /\ last' = [c EXCEPT !.err = "Sqlite"]
                    /\ UNCHANGED dimension
               ELSE /\ last' = [c EXCEPT !.dimension = d]
                    /\ dimension' = d
            /\ tx' = NoTx
            /\ UNCHANGED <<rows, seq, issued, write_lock, threads, batch, probe>>

\* insert on the instance of thread t, in the steps of its INSERT statement.
\* The statement starts a write transaction, which takes the file's write lock.
BeginWrite(t) ==
    /\ threads[t].pc = "ready"
    /\ threads[t].left > 0
    /\ WriteLockFree(write_lock)
    /\ write_lock' = t
    /\ threads' = [threads EXCEPT ![t].pc = "writing"]
    /\ UNCHANGED <<rows, seq, tx, issued, last, dimension, batch, probe>>

\* While another connection holds the write lock the statement waits in the
\* connection's busy handler, which polls the lock for a limited time; when that
\* time has run out the statement fails (database is locked) and insert returns
\* the error.
BusyTimeout(t) ==
    /\ threads[t].pc = "ready"
    /\ threads[t].left > 0
    /\ ~WriteLockFree(write_lock)
    /\ threads' = [threads EXCEPT ![t].left = @ - 1, ![t].busy = @ + 1]
    /\ UNCHANGED <<rows, seq, tx, issued, last, dimension, write_lock, batch, probe>>

\* the statement appends its row to the log: the row id comes from the committed
\* table and sqlite_sequence as the connection reads them now
WriteRow(t) ==
    /\ threads[t].pc = "writing"
    /\ LET vector == ThreadVector(t)
           db == ExecInsert([rows |-> rows, seq |-> seq],
                            serialize_vector(vector), vector_norm(vector), NoMeta)
       IN  threads' = [threads EXCEPT ![t].pc = "committing", ![t].pending = db]
    /\ UNCHANGED <<rows, seq, tx, issued, last, dimension, write_lock, batch, probe>>

\* the statement commits (autocommit), which publishes its row and releases the
\* write lock; insert returns last_insert_rowid()
CommitWrite(t) ==
    /\ threads[t].pc = "committing"
    /\ rows' = threads[t].pending.rows
    /\ seq' = threads[t].pending.seq
    /\ write_lock' = 0
    /\ issued' = issued \cup {threads[t].pending.seq}
    /\ threads' = [threads EXCEPT ![t].pc = "ready",
                                  ![t].left = @ - 1,
                                  ![t].ids = Append(@, threads[t].pending.seq)]
    /\ UNCHANGED <<tx, last, dimension, batch, probe>>

Next ==
    \/ Insert(StoreInputs)
    \/ InsertBatch
    \/ Get
    \/ Delete
    \/ Count

Spec == Init /\ [][Next]_vars

\* ---------------------------------------------------------------- properties
HasWrongLength(vectors) == \E i \in DOMAIN vectors : Len(vectors[i]) # Dim

\* what C1 says of a failed batch
BatchUnchanged ==
    /\ last'.err = "DimensionMismatch"
    /\ View'.rows = View.rows
    /\ CountRows(View') = CountRows(View)

ValidWrite(c) ==
    /\ c.op \in {"insert", "insert_batch"}
    /\ Len(c.vectors) = Len(c.metadata)
    /\ ~HasWrongLength(c.vectors)

\* C2: a failed insert_batch leaves no transaction open, and an insert or
\* insert_batch with valid input that follows it succeeds: its rows are committed,
\* counted by count() and returned by get().
C2_UsableAfterFailedBatch ==
    [][/\ (last'.op = "insert_batch" /\ last'.err # "ok") => ~tx'.open
       /\ (last.op = "insert_batch" /\ last.err # "ok" /\ ValidWrite(last'))
              => /\ last'.err = "ok"
                 /\ Len(last'.ids) = Len(last'.vectors)
                 /\ CountRows(View') = CountRows(View) + Len(last'.vectors)
                 /\ \A j \in DOMAIN last'.ids :
                        /\ last'.ids[j] \in DOMAIN rows'
                        /\ GetVector(View', last'.ids[j])
                               = [err |-> "ok", found |-> TRUE,
                                  vec |-> last'.vectors[j]]]_vars

\* an insert or a batch of at least one row succeeded right after a failed batch
C2_Witness ==
    /\ last.afterFailedBatch
    /\ last.op \in {"insert", "insert_batch"}
    /\ last.err = "ok"
    /\ Len(last.ids) >= 1
    /\ \A j \in DOMAIN last.ids : last.ids[j] \in DOMAIN rows

\* C3: every id a successful insert or insert_batch returns is greater than every
\* id returned before it, in earlier calls and earlier in the same batch; so ids
\* are pairwise distinct and the id of a deleted row is not returned again.
C3_IdsStrictlyIncrease ==
    [][(last'.op \in {"insert", "insert_batch"} /\ last'.err = "ok")
           => \A j \in DOMAIN last'.ids :
                  /\ \A i \in issued : last'.ids[j] > i
                  /\ \A h \in 1..(j - 1) : last'.ids[j] > last'.ids[h]]_vars

\* an insert returned an id after the row with the largest id so far was deleted
C3_Witness ==
    /\ last.op = "insert"
    /\ last.err = "ok"
    /\ (last.ids[1] - 1) \in issued
    /\ (last.ids[1] - 1) \notin DOMAIN View.rows

\* C4: insert of a vector whose length is not the configured dimension, the empty
\* vector included, returns DimensionMismatch with expected the dimension and
\* actual the length, and writes nothing: the rows and count() are unchanged.
C4_InsertRejectsWrongLength ==
    [][(last'.op = "insert" /\ Len(last'.vectors[1]) # Dim)
           => /\ last'.err = "DimensionMismatch"
              /\ last'.expected = Dim
              /\ last'.actual = Len(last'.vectors[1])
              /\ last'.ids = <<>>
              /\ View'.rows = View.rows
              /\ CountRows(View') = CountRows(View)]_vars

\* the empty vector was rejected by a store that holds rows
C4_Witness ==
    /\ last.op = "insert"
    /\ last.err = "DimensionMismatch"
    /\ last.vectors = <<(<<>>)>>
    /\ last.actual = 0
    /\ CountRows(View) > 0

Some(v) == [err |-> "ok", found |-> TRUE, vec |-> v]
None == [err |-> "ok", found |-> FALSE, vec |-> <<>>]

\* C5: when insert(v) returns id, get(id) returns Some(v), component for component,
\* and what get(id) returns stays the same through every later call for as long as
\* the row is not itself deleted.
C5_InsertGetIdentity ==
    [][/\ (last'.op = "insert" /\ last'.err = "ok")
              => GetVector(View', last'.ids[1]) = Some(last'.vectors[1])
       /\ \A id \in DOMAIN View.rows \cap DOMAIN View'.rows :
              GetVector(View', id) = GetVector(View, id)
       /\ (last'.op = "get" /\ last'.id \in DOMAIN View.rows)
              => /\ last'.err = "ok"
                 /\ last'.found
                 /\ last'.vec = GetVector(View, last'.id).vec]_vars

\* get returned a stored vector that is not zero, after another row was deleted and
\* after a later insert
C5_Witness ==
    /\ last.op = "get"
    /\ last.found
    /\ last.vec \in Vectors \ {Uniform(0, Dim)}
    /\ last.vec = GetVector(View, last.id).vec
    /\ issued \ DOMAIN View.rows # {}
    /\ \E later \in issued : later > last.id

\* C6: delete(id) of a stored id returns true, lowers count() by exactly one, leaves
\* every other row as it was, and get(id) finds nothing from then on: the id is
\* never stored again.
C6_DeleteStored ==
    [][/\ (last'.op = "delete" /\ last'.id \in DOMAIN View.rows)
              => /\ last'.err = "ok"
                 /\ last'.found
                 /\ CountRows(View') = CountRows(View) - 1
                 /\ DOMAIN View'.rows = DOMAIN View.rows \ {last'.id}
                 /\ \A other \in DOMAIN View'.rows :
                        View'.rows[other] = View.rows[other]
                 /\ GetVector(View', last'.id) = None
       /\ \A gone \in issued \ DOMAIN View.rows :
              GetVector(View', gone) = None]_vars

\* a stored row was deleted and other rows remain
C6_Witness ==
    /\ last.op = "delete"
    /\ last.found
    /\ last.id \in issued
    /\ last.id \notin DOMAIN View.rows
    /\ CountRows(View) >= 1

\* C7: delete(id) of an id that is not stored, never assigned or already deleted,
\* returns false without an error and changes no row and not count(); get(id) of
\* such an id returns None without an error.
C7_AbsentIdIsNoError ==
    [][/\ (last'.op = "delete" /\ last'.id \notin DOMAIN View.rows)
              => /\ last'.err = "ok"
                 /\ ~last'.found
                 /\ View'.rows = View.rows
                 /\ CountRows(View') = CountRows(View)
       /\ (last'.op = "get" /\ last'.id \notin DOMAIN View.rows)
              => /\ last'.err = "ok"
                 /\ ~last'.found
                 /\ last'.vec = <<>>
                 /\ View'.rows = View.rows]_vars

\* delete was called on the id of a row deleted before, on a store that holds rows
C7_Witness ==
    /\ last.op = "delete"
    /\ ~last.found
    /\ last.err = "ok"
    /\ last.id \in issued
    /\ CountRows(View) >= 1

\* C16: a successful insert_batch returns one id for each vector, in the order of
\* the vectors: get of the i-th id returns the i-th vector; the ids are strictly
\* increasing and new, count() grows by the number of vectors, and the empty batch
\* returns the empty list and changes nothing.
C16_BatchIdsInInputOrder ==
    [][(last'.op = "insert_batch" /\ last'.err = "ok")
           => /\ Len(last'.ids) = Len(last'.vectors)
              /\ \A j \in DOMAIN last'.ids :
                     /\ GetVector(View', last'.ids[j]) = Some(last'.vectors[j])
                     /\ last'.ids[j] \notin DOMAIN View.rows
                     /\ \A h \in 1..(j - 1) : last'.ids[h] < last'.ids[j]
              /\ CountRows(View') = CountRows(View) + Len(last'.vectors)
              /\ last'.vectors = <<>>
                     => /\ last'.ids = <<>>
                        /\ View' = View]_vars

\* a batch of two different vectors succeeded on a store that held a row
C16_Witness ==
    /\ last.op = "insert_batch"
    /\ last.err = "ok"
    /\ Len(last.vectors) = 2
    /\ last.vectors[1] # last.vectors[2]
    /\ CountRows(View) > 2

\* C17: insert_batch with lists of different lengths returns InvalidVector and
\* writes nothing: no row, no id, no transaction left open; also when every vector
\* has the configured dimension.
C17_BatchLengthMismatchIsInvalidVector ==
    [][(last'.op = "insert_batch" /\ Len(last'.vectors) # Len(last'.metadata))
           => /\ last'.err = "InvalidVector"
              /\ last'.ids = <<>>
              /\ rows' = rows
              /\ seq' = seq
              /\ tx' = tx
              /\ ~tx'.open
              /\ issued' = issued]_vars

\* a batch of one well-formed vector with two metadata entries was refused by a
\* store that holds rows
C17_Witness ==
    /\ last.op = "insert_batch"
    /\ last.err = "InvalidVector"
    /\ Len(last.vectors) = 1
    /\ Len(last.vectors[1]) = dimension
    /\ Len(last.metadata) = 2
    /\ CountRows(View) > 0

\* the store under inserts of every modelled vector, deletes and searches
SearchNext ==
    \/ Insert(SearchInputs)
    \/ Delete
    \/ Search

SearchSpec == Init /\ [][SearchNext]_vars

\* ---------------------------------------------------------------- search properties
SearchOk == last.op = "search" /\ last.err = "ok" /\ Len(last.vectors[1]) = Dim

Returned == {last.results[i].id : i \in DOMAIN last.results}

\* the vector a stored row holds
RowVector(id) == deserialize_vector(View.rows[id].vector, 0).vec

\* the cosine similarity of a stored row to the vector q
RowSimilarity(id, q) == cosine_similarity(RowVector(id), q).sim

\* the stored norm of row id lies in [qn * 0.7, qn * 1.3], qn the norm of q; norms
\* are carried as their squares
InWindow(id, q) ==
    /\ 100 * View.rows[id].norm >= 49 * vector_norm(q)
    /\ 100 * View.rows[id].norm <= 169 * vector_norm(q)

Window(q) == {id \in DOMAIN View.rows : InWindow(id, q)}

SimLess(s, t) == ~SimLeq(t, s)

\* v is a positive scalar multiple of q, and not zero
PositiveMultiple(v, q) ==
    /\ \E i \in DOMAIN v : v[i] # 0
    /\ \E a \in 1..MaxVal, b \in 1..MaxVal :
           \A i \in DOMAIN v : a * v[i] = b * q[i]

\* C8, as stated: a search returns min(k, count()) results, and with k above the
\* number of stored rows it returns exactly the stored rows.
C8_SearchReturnsMinKCount ==
    SearchOk =>
        /\ Len(last.results) = Min(last.k, CountRows(View))
        /\ last.k > CountRows(View) => Returned = DOMAIN View.rows

C11_ResultsNonIncreasing ==
    SearchOk =>
        \A i \in 2..Len(last.results) :
            SimLeq(last.results[i].similarity, last.results[i - 1].similarity)

\* a search returned two rows of different similarity, the more similar one being
\* the row inserted later
C11_Witness ==
    /\ SearchOk
    /\ Len(last.results) >= 2
    /\ SimLess(last.results[2].similarity, last.results[1].similarity)
    /\ last.results[1].id > last.results[2].id

\* C12: a search with k = 0 for a query of the configured dimension returns the
\* empty list and no error, whatever the store holds.
C12_SearchZeroIsEmpty ==
    (last.op = "search" /\ last.k = 0 /\ Len(last.vectors[1]) = dimension)
        => /\ last.err = "ok"
           /\ last.results = <<>>

\* a search with k = 0 returned nothing although rows lay in the query's window
C12_Witness ==
    /\ SearchOk
    /\ last.k = 0
    /\ last.results = <<>>
    /\ Window(last.vectors[1]) # {}

\* insert's arguments under QuerySpec
QueryInputs ==
    {[vector |-> v, metadata |-> NoMeta] : v \in {Uniform(1, Dim), Axis(1, 1, Dim)}}

\* the store under inserts, deletes and every read-only operation
QueryNext ==
    \/ Insert(QueryInputs)
    \/ Delete
    \/ Search
    \/ SearchWithThreshold
    \/ Get
    \/ Count
    \/ Stats

QuerySpec == Init /\ [][QueryNext]_vars

\* ---------------------------------------------------------------- query properties
\* s >= threshold, for a similarity s and a threshold in tenths
SimAtLeast(s, threshold) ==
    IF s.num < 0 THEN FALSE
    ELSE 100 * s.num * s.num >= threshold * threshold * s.den2

\* the stored norm of row id lies in [qn * (1 - t), qn * (1 + t)], qn the norm of q
\* and t = min(1 - threshold, 0.3); norms are carried as their squares
InThresholdWindow(id, q, threshold) ==
    LET t == IF 10 - threshold < 3 THEN 10 - threshold ELSE 3
    IN  /\ 100 * View.rows[id].norm >= (10 - t) * (10 - t) * vector_norm(q)
        /\ 100 * View.rows[id].norm <= (10 + t) * (10 + t) * vector_norm(q)

\* C13, as stated: a threshold search for a query of the configured dimension
\* succeeds; it returns at most k results, each of similarity at least the
\* threshold, in non-increasing order, all from rows whose norm is in the window.
C13_ThresholdSearchSucceeds ==
    (last.op = "search_with_threshold" /\ Len(last.vectors[1]) = dimension)
        => /\ last.err = "ok"
           /\ Len(last.results) <= last.k
           /\ \A i \in DOMAIN last.results :
                  /\ SimAtLeast(last.results[i].similarity, last.threshold)
                  /\ last.results[i].id \in DOMAIN View.rows
                  /\ InThresholdWindow(last.results[i].id, last.vectors[1],
                                       last.threshold)
           /\ \A i \in 2..Len(last.results) :
                  SimLeq(last.results[i].similarity,
                         last.results[i - 1].similarity)

\* C14, as stated: of two threshold searches of the same store for the same query
\* and k, both succeed and the one with the higher threshold returns no more
\* results than the other.
C14_ThresholdMonotone ==
    [][(/\ last.op = "search_with_threshold"
        /\ last'.op = "search_with_threshold"
        /\ Len(last.vectors[1]) = dimension
        /\ last'.vectors = last.vectors
        /\ last'.k = last.k
        /\ last'.threshold >= last.threshold)
           => /\ last.err = "ok"
              /\ last'.err = "ok"
              /\ Len(last'.results) <= Len(last.results)]_vars

ReadOnly == {"search", "search_with_threshold", "get", "count", "stats"}

\* C15: search and search_with_threshold of a query whose length is not the
\* configured dimension return DimensionMismatch with expected the dimension and
\* actual the length; and search, search_with_threshold, get, count and stats,
\* whatever they return, leave the stored rows as they were.
C15_ReadsLeaveRowsUnchanged ==
    [][/\ (/\ last'.op \in {"search", "search_with_threshold"}
           /\ Len(last'.vectors[1]) # dimension)
              => /\ last'.err = "DimensionMismatch"
                 /\ last'.expected = dimension
                 /\ last'.actual = Len(last'.vectors[1])
                 /\ last'.results = <<>>
       /\ last'.op \in ReadOnly
              => /\ rows' = rows
                 /\ seq' = seq
                 /\ tx' = tx]_vars

\* on a store that holds rows, a threshold search of a query that is too long was
\* refused
C15_Witness ==
    /\ last.op = "search_with_threshold"
    /\ CountRows(View) > 0
    /\ last.err = "DimensionMismatch"
    /\ last.actual = dimension + 1

\* insert's arguments under PersistSpec: a vector of each dimension an instance can
\* be configured with
PersistInputs ==
    {[vector |-> Uniform(1, d), metadata |-> NoMeta] : d \in Dimensions}

\* a persistent file under a sequence of instances, each opened on it after the
\* one before was dropped
PersistNext ==
    \/ NewPersistent
    \/ Insert(PersistInputs)
    \/ Delete
    \/ Get
    \/ Count
    \/ Search

PersistSpec == Init /\ [][PersistNext]_vars

\* ---------------------------------------------------------------- persistence properties
\* C19: new_persistent on an existing file succeeds; the new instance sees the rows
\* the file held when the instance before was dropped, so count() and get() are
\* unchanged; and every id issued later is greater than every id issued before.
C19_ReopenKeepsRowsAndIds ==
    [][/\ last'.op = "new_persistent"
              => /\ last'.err = "ok"
                 /\ View'.rows = View.rows
                 /\ CountRows(View') = CountRows(View)
                 /\ \A id \in 0..(MaxId + 1) :
                        GetVector(View', id) = GetVector(View, id)
       /\ (last'.op = "insert" /\ last'.err = "ok")
              => \A i \in issued : last'.ids[1] > i]_vars

\* a file was reopened that holds a row and whose row of the largest id issued so
\* far was deleted
C19_Witness ==
    /\ last.op = "new_persistent"
    /\ last.err = "ok"
    /\ CountRows(View) > 0
    /\ issued # {}
    /\ SetMax(issued) \notin DOMAIN View.rows

\* C20, as stated: every row an instance sees holds a blob of dimension * 4 bytes
\* for that instance's dimension, and no search of a query of that dimension
\* fails; also for an instance opened on a file an earlier instance wrote.
C20_RowsHaveConfiguredLength ==
    /\ \A id \in DOMAIN View.rows : Len(View.rows[id].vector) = dimension * 4
    /\ (last.op = "search" /\ Len(last.vectors[1]) = dimension)
           => last.err = "ok"

\* threads that insert into one file concurrently, each through its own instance;
\* when all have returned, a new instance is opened on the file and counts its rows
ConcurrentNext ==
    \/ \E t \in Threads : BeginWrite(t)
    \/ \E t \in Threads : BusyTimeout(t)
    \/ \E t \in Threads : WriteRow(t)
    \/ \E t \in Threads : CommitWrite(t)
    \/ (Joined /\ NewPersistent)
    \/ (Joined /\ Count)

ConcurrentSpec == Init /\ [][ConcurrentNext]_vars

\* ---------------------------------------------------------------- concurrency properties
\* the ids the inserts of thread t have returned
ThreadIds(t) == {threads[t].ids[j] : j \in DOMAIN threads[t].ids}

AllThreadIds == UNION {ThreadIds(t) : t \in Threads}

RECURSIVE SumOver(_, _)
SumOver(f, S) ==
    IF S = {} THEN 0
    ELSE LET x == CHOOSE y \in S : TRUE IN f[x] + SumOver(f, S \ {x})

\* ids are pairwise distinct: within a thread and between threads
IdsPairwiseDistinct ==
    /\ \A t \in Threads : Cardinality(ThreadIds(t)) = Len(threads[t].ids)
    /\ \A t, u \in Threads : t # u => ThreadIds(t) \cap ThreadIds(u) = {}

StorageModes == {"InMemory", "Persistent"}

\* a constructor that opens a store in memory whatever the mode
IsPersistentNever(storage_mode) == FALSE

\* matches!(config.storage_mode, StorageMode::Persistent)
IsPersistent(storage_mode) == storage_mode = "Persistent"

\* VectorStore::new(config).  For the Persistent mode it returns the Config error
\* before it opens anything, so the caller gets no instance and whatever instance
\* it holds is untouched.  Otherwise it opens a fresh database in memory, creates
\* the schema and returns the instance, which replaces the one the caller held
\* (that one is dropped, and its in-memory database with it).
New ==
    \E storage_mode \in StorageModes, d \in Dimensions :
        LET c == [Call("new") EXCEPT !.storage_mode = storage_mode]
        IN  IF IsPersistent(storage_mode)
            THEN /\ last' = [c EXCEPT !.err = "Config", !.instance = FALSE]
                 /\ UNCHANGED <<rows, seq, tx, issued, dimension, write_lock, threads, batch, probe>>
            ELSE /\ rows' = EmptyRows
                 /\ seq' = 0
                 /\ tx' = NoTx
                 /\ issued' = {}
                 /\ dimension' = d
                 /\ last' = [c EXCEPT !.dimension = d]
                 /\ UNCHANGED <<write_lock, threads, batch, probe>>

ConstructNext ==
    \/ New
    \/ Insert(PersistInputs)
    \/ Delete
    \/ Count

ConstructSpec == Init /\ [][ConstructNext]_vars

\* C21: new with storage_mode Persistent returns the Config error and no
\* instance, and changes nothing; new with storage_mode InMemory returns an
\* instance whose store is empty, and a count() right after it returns 0.
C21_NewRefusesPersistent ==
    [][/\ (last'.op = "new" /\ last'.storage_mode = "Persistent") =>
              /\ last'.err = "Config"
              /\ ~last'.instance
              /\ UNCHANGED <<rows, seq, tx, issued, dimension>>
       /\ (last'.op = "new" /\ last'.storage_mode = "InMemory") =>
              /\ last'.err = "ok"
              /\ last'.instance
              /\ Cardinality(DOMAIN rows') = 0
              /\ ~tx'.open
       /\ (last.op = "new" /\ last.instance /\ last'.op = "count") =>
              last'.count = 0]_vars

\* new was refused for the Persistent mode on a caller that holds a store with rows
C21_Witness ==
    /\ last.op = "new"
    /\ last.storage_mode = "Persistent"
    /\ last.err = "Config"
    /\ rows # EmptyRows


\* ---------------------------------------------------------------- extreme values
ExtremeInputs ==
    {[vector |-> v, metadata |-> NoMeta] : v \in NonFiniteVectors \cup FiniteVectors}

ExtremeNext ==
    \/ Insert(ExtremeInputs)
    \/ Delete
    \/ Count
    \/ SearchFor(NonFiniteVectors \cup FiniteVectors, {1, MaxId + 1})

ExtremeSpec == Init /\ [][ExtremeNext]_vars

HasNaN(v) == \E i \in DOMAIN v : v[i] = NaN
HasInfinity(v) == \E i \in DOMAIN v : v[i] = Infinity

\* an insert of a vector of the configured dimension that has just returned
InsertedNow(v) ==
    /\ last'.op = "insert"
    /\ last'.vectors = <<v>>
    /\ Len(v) = dimension

\* C22 as stated: an insert of a vector of the configured dimension with a NaN or
\* an infinite component returns Ok with a new id, and the row count grows by 1.
C22_NonFiniteInsertSucceeds ==
    [][\A v \in NonFiniteVectors :
          InsertedNow(v) =>
              /\ last'.err = "ok"
              /\ Len(last'.ids) = 1
              /\ last'.ids[1] \notin issued
              /\ Cardinality(DOMAIN View'.rows) = Cardinality(DOMAIN View.rows) + 1
      ]_vars

\* C22, amended: such an insert succeeds, with a new id and one more row, when no
\* component is NaN; when a component is NaN it returns the engine's error and
\* the store is unchanged.
C22_InfiniteInsertSucceedsNaNFails ==
    [][\A v \in NonFiniteVectors :
          InsertedNow(v) =>
              IF HasNaN(v)
              THEN /\ last'.err = "Sqlite"
                   /\ UNCHANGED <<rows, seq, tx, issued>>
              ELSE /\ last'.err = "ok"
                   /\ Len(last'.ids) = 1
                   /\ last'.ids[1] \notin issued
                   /\ Cardinality(DOMAIN View'.rows)
                          = Cardinality(DOMAIN View.rows) + 1
      ]_vars

\* a vector with a NaN component was refused by a store that holds a row with an
\* infinite component, whose norm is infinite
C22_Witness ==
    /\ last.op = "insert"
    /\ last.err = "Sqlite"
    /\ HasNaN(last.vectors[1])
    /\ \E id \in DOMAIN rows : rows[id].norm = Infinity

\* the similarity 1.0: dot > 0 and dot^2 = norm_a^2 * norm_b^2
IsOne(sim) == IsInteger(sim.num) /\ sim.num > 0 /\ sim.num * sim.num = sim.den2

\* C23 as stated: when a row equal to the finite query v is stored, search(v, 1)
\* returns exactly one result, and for a nonzero v its similarity is 1.0.
C23_SelfRetrieval ==
    \A v \in FiniteVectors :
        (/\ last.op = "search"
         /\ last.vectors = <<v>>
         /\ last.k = 1
         /\ \E id \in DOMAIN View.rows : View.rows[id].vector = serialize_vector(v))
        => /\ last.err = "ok"
           /\ Len(last.results) = 1
           /\ (v # Uniform(0, Dim) => IsOne(last.results[1].similarity))

\* ---------------------------------------------------------------- codec calls
\* byte values: those of 1.0 (0, 0, 128, 63) and of 2.0 (0, 0, 0, 64)
ByteValues == {0, 63, 64, 128}

\* the byte slices handed to deserialize_vector
ByteSlices == UNION {[1..n -> ByteValues] : n \in 0..MaxBytes}

\* where a slice can start: its address modulo 4
Addresses == 0..3

\* finite vectors of every length up to Dim
CodecVectors ==
    UNION {[1..n -> {0, 1, -MaxVal, Tiny, Huge}] : n \in 0..Dim}

\* deserialize_vector on a slice of the caller's.  The functions of the codec and
\* the kernel keep no state, so one call from the initial state stands for a call
\* at any time.
Deserialize ==
    \E bytes \in ByteSlices, address \in Addresses :
        LET d == deserialize_vector(bytes, address)
        IN  /\ probe = NoProbe
            /\ probe' = [NoProbe EXCEPT !.op = "deserialize_vector",
                                        !.bytes = bytes,
                                        !.address = address,
                                        !.err = d.err,
                                        !.vec = d.vec]
            /\ UNCHANGED <<rows, seq, tx, issued, last, dimension, write_lock,
                           threads, batch>>

\* deserialize_vector(&serialize_vector(v)): the bytes are in the Vec<u8> that
\* serialize_vector returned
RoundTrip ==
    \E v \in CodecVectors :
        LET bytes == serialize_vector(v)
            d == deserialize_vector(bytes, OwnedAddress(bytes))
        IN  /\ probe = NoProbe
            /\ probe' = [NoProbe EXCEPT !.op = "round_trip",
                                        !.v = v,
                                        !.bytes = bytes,
                                        !.address = OwnedAddress(bytes),
                                        !.err = d.err,
                                        !.vec = d.vec]
            /\ UNCHANGED <<rows, seq, tx, issued, last, dimension, write_lock,
                           threads, batch>>

CodecNext ==
    \/ Deserialize
    \/ RoundTrip

CodecSpec == Init /\ [][CodecNext]_vars

\* C24 as stated: for every finite vector v of any length, the empty one included,
\* deserialize_vector(serialize_vector(v)) returns Ok(v), and serialize_vector(v)
\* has 4 * len(v) bytes.
C24_RoundTripIsIdentity ==
    probe.op = "round_trip"
        => /\ probe.err = "ok"
           /\ probe.vec = probe.v
           /\ Len(probe.bytes) = 4 * Len(probe.v)

\* C25 as stated: deserialize_vector returns InvalidVector exactly when the length
\* is not a multiple of 4, and for every other slice, wherever it lies, returns
\* Ok with len / 4 floats.
C25_DeserializeIsTotal ==
    probe.op = "deserialize_vector"
        => /\ probe.err = "InvalidVector" <=> Len(probe.bytes) % 4 # 0
           /\ Len(probe.bytes) % 4 = 0
                  => /\ probe.err = "ok"
                     /\ Len(probe.vec) = Len(probe.bytes) \div 4

\* ---------------------------------------------------------------- kernel calls
\* the lengths of the kernel's inputs: below a chunk, one chunk, between one and
\* two chunks, two chunks, and beyond
KernelLengths == 0..(2 * ChunkWidth + 1)

\* components -1, 0, 1, .. in turn
Ramp(n) == [i \in 1..n |-> (i % (MaxVal + 2)) - 1]

\* inputs of length n: all zero, all one, mixed, and one for each index that is 1
\* at that index and 0 elsewhere
KernelVectors(n) ==
    {Uniform(0, n), Uniform(1, n), Ramp(n)} \cup {Axis(1, j, n) : j \in 1..n}

\* pairs of inputs: of equal length, and of lengths that differ
KernelPairs ==
    UNION {KernelVectors(n) \X KernelVectors(n) : n \in KernelLengths}
        \cup {<<Uniform(1, n), Uniform(1, m)>> :
                 n \in {0, 1, ChunkWidth}, m \in {0, 2, ChunkWidth + 1}}

\* cosine_similarity(a, b) in a build for some target, and the accumulators of the
\* chunked and of the scalar kernel on the same inputs
CosineSimilarity ==
    \E target \in Targets, p \in KernelPairs :
        LET a == p[1]
            b == p[2]
            c == cosine_similarity_for(target, a, b)
        IN  /\ probe = NoProbe
            /\ probe' = [NoProbe EXCEPT
                            !.op = "cosine_similarity",
                            !.target = target, !.a = a, !.b = b,
                            !.err = c.err, !.expected = c.expected,
                            !.actual = c.actual, !.sim = c.sim,
                            !.optimized = IF Len(a) = Len(b)
                                          THEN OptimizedAccumulators(a, b)
                                          ELSE ZeroAcc,
                            !.scalar = IF Len(a) = Len(b)
                                       THEN ScalarAccumulators(a, b)
                                       ELSE ZeroAcc]
            /\ UNCHANGED <<rows, seq, tx, issued, last, dimension, write_lock,
                           threads, batch>>

KernelNext == CosineSimilarity

KernelSpec == Init /\ [][KernelNext]_vars

\* the sum over i of a[i] * b[i]
RECURSIVE DotProduct(_, _)
DotProduct(a, b) ==
    IF a = <<>> THEN 0 ELSE Head(a) * Head(b) + DotProduct(Tail(a), Tail(b))

\* C26: for a and b of equal length cosine_similarity returns 0.0 when the squared
\* norm of a or of b is zero (empty inputs included) and dot / (sqrt(norm_a^2) *
\* sqrt(norm_b^2)) otherwise; for different lengths it returns
\* DimensionMismatch{expected: len(a), actual: len(b)}.
C26_CosineSimilarityContract ==
    probe.op = "cosine_similarity" =>
        LET a == probe.a
            b == probe.b
        IN  IF Len(a) # Len(b)
            THEN /\ probe.err = "DimensionMismatch"
                 /\ probe.expected = Len(a)
                 /\ probe.actual = Len(b)
            ELSE /\ probe.err = "ok"
                 /\ probe.sim =
                        IF DotProduct(a, a) = 0 \/ DotProduct(b, b) = 0
                        THEN ZeroSim
                        ELSE [num |-> DotProduct(a, b),
                              den2 |-> DotProduct(a, a) * DotProduct(b, b)]

\* the kernel returned 0.0 for a zero vector against a nonzero one, both longer
\* than a chunk
C26_Witness ==
    /\ probe.op = "cosine_similarity"
    /\ probe.err = "ok"
    /\ Len(probe.a) > ChunkWidth
    /\ DotProduct(probe.a, probe.a) = 0
    /\ DotProduct(probe.b, probe.b) > 0
    /\ probe.sim = ZeroSim

\* the kernel refused inputs of different lengths
C26_WitnessMismatch ==
    /\ probe.op = "cosine_similarity"
    /\ probe.err = "DimensionMismatch"
    /\ probe.expected = ChunkWidth
    /\ probe.actual = ChunkWidth + 1

\* C27: on inputs of equal length the chunked kernel ends with the accumulators of
\* the scalar loop, so it returns what the scalar kernel returns; each index is
\* visited exactly once: inputs that are 1 at one index and 0 elsewhere give the
\* accumulators 1, 1, 1.
C27_ChunkedEqualsScalar ==
    (probe.op = "cosine_similarity" /\ Len(probe.a) = Len(probe.b)) =>
        /\ probe.optimized = probe.scalar
        /\ Quotient(probe.optimized) = cosine_similarity_scalar(probe.a, probe.b)
        /\ \A j \in 1..Len(probe.a) :
               (probe.a = Axis(1, j, Len(probe.a)) /\ probe.b = probe.a)
                   => probe.optimized = [dot |-> 1, norm_a |-> 1, norm_b |-> 1]

\* the kernels agreed on inputs of a length between one and two chunks whose last
\* component, which the remainder loop reads, is not zero
C27_Witness ==
    /\ probe.op = "cosine_similarity"
    /\ Len(probe.a) = Len(probe.b)
    /\ Len(probe.a) > ChunkWidth
    /\ Len(probe.a) % ChunkWidth # 0
    /\ probe.a[Len(probe.a)] # 0
    /\ probe.b[Len(probe.b)] # 0
    /\ probe.optimized = probe.scalar
    /\ probe.optimized.dot # 0

\* ---------------------------------------------------------------- lifecycle
\* batches of MaxBatch vectors: all of the configured dimension, or the last one not
LifecycleBatches ==
    {[i \in 1..MaxBatch |-> IF i = p THEN BatchBad ELSE BatchGood(i)] :
        p \in {0, MaxBatch}}

\* one store under every operation that reads or changes its rows
LifecycleNext ==
    \/ Insert(PersistInputs)
    \/ InsertBatchFor(LifecycleBatches)
    \/ Delete
    \/ Get
    \/ SearchFor({Uniform(1, Dim)}, {1, MaxId + 1})
    \/ Count
    \/ Stats

LifecycleSpec == Init /\ [][LifecycleNext]_vars

\* the ids a successful insert or a committed batch has just returned
ReturnedNow ==
    IF last'.op \in {"insert", "insert_batch"} /\ last'.err = "ok"
    THEN {last'.ids[j] : j \in DOMAIN last'.ids}
    ELSE {}

\* the id a delete has just removed
DeletedNow ==
    IF last'.op = "delete" /\ last'.found THEN {last'.id} ELSE {}

\* C28: the stored ids are the ids that successful inserts (single or committed
\* batch) have returned and that no delete has removed since: each call adds the
\* ids it returns, a delete that returns true removes its id, and nothing else
\* changes them; count() returns their number, and stats() returns that number
\* as vector_count and the configured dimension as dimension.
C28_CountIsLiveIds ==
    [][/\ issued' = issued \cup ReturnedNow
       /\ ReturnedNow \cap issued = {}
       /\ DOMAIN View'.rows = (DOMAIN View.rows \cup ReturnedNow) \ DeletedNow
       /\ DOMAIN View'.rows \subseteq issued'
       /\ last'.op = "count"
              => last'.count = Cardinality(DOMAIN View'.rows)
       /\ last'.op = "stats"
              => /\ last'.count = Cardinality(DOMAIN View'.rows)
                 /\ last'.dimension = dimension]_vars

\* stats returned one vector and the configured dimension on a store whose inserts
\* have returned three ids, two of which have been deleted since
C28_Witness ==
    /\ last.op = "stats"
    /\ last.count = 1
    /\ last.dimension = Dim
    /\ Cardinality(issued) = 3
    /\ Cardinality(DOMAIN rows) = 1

\* ---------------------------------------------------------------- result ids
\* a search or search_with_threshold call has just returned a list of results
ResultsNow == last'.op \in {"search", "search_with_threshold"} /\ last'.err = "ok"

Committed == [rows |-> rows, seq |-> seq]

\* a connection that reads the rows another connection's open transaction has
\* written and not committed
ReadUncommitted(committed, view) == view

\* what a connection reads while another connection's transaction is open on the
\* file: the last committed database
ReaderSnapshot(committed, view) == committed

\* the first instance enters insert_batch: the length test, then
\* unchecked_transaction() and the prepared INSERT
BatchBegin ==
    /\ ~batch.active
    /\ ~tx.open
    /\ \E vectors \in LifecycleBatches : \E metadata \in BatchMetas(vectors) :
           LET c == [Call("insert_batch") EXCEPT !.vectors = vectors,
                                                 !.metadata = metadata]
           IN  IF BatchLengthMismatch(vectors, metadata)
               THEN /\ last' = [c EXCEPT !.err = "InvalidVector"]
                    /\ UNCHANGED <<rows, seq, tx, issued, dimension, write_lock,
                                   threads, batch, probe>>
               ELSE /\ seq + Len(vectors) <= MaxId
                    /\ tx' = [open |-> TRUE, rows |-> rows, seq |-> seq]
                    /\ batch' = [active |-> TRUE, vectors |-> vectors,
                                 metadata |-> metadata, i |-> 1, ids |-> <<>>]
                    /\ UNCHANGED <<rows, seq, issued, last, dimension, write_lock,
                                   threads, probe>>

\* one iteration of the loop of insert_batch: the row is written inside the
\* transaction, or the call returns early and the transaction is dropped
BatchStep ==
    /\ batch.active
    /\ batch.i <= Len(batch.vectors)
    /\ LET c == [Call("insert_batch") EXCEPT !.vectors = batch.vectors,
                                             !.metadata = batch.metadata]
           r == BatchLoop(View, <<batch.vectors[batch.i]>>,
                          <<batch.metadata[batch.i]>>, 1, <<>>)
           end == DropTransaction(Committed, r.db)
       IN  IF r.err = "ok"
           THEN /\ tx' = [open |-> TRUE, rows |-> r.db.rows, seq |-> r.db.seq]
                /\ batch' = [batch EXCEPT !.i = batch.i + 1,
                                          !.ids = batch.ids \o r.ids]
                /\ UNCHANGED <<rows, seq, issued, last, dimension, write_lock,
                               threads, probe>>
           ELSE /\ rows' = end.rows
                /\ seq' = end.seq
                /\ tx' = end.tx
                /\ batch' = NoBatch
                /\ last' = IF r.err = "DimensionMismatch"
                           THEN DimensionMismatch(c, r.actual)
                           ELSE [c EXCEPT !.err = r.err]
                /\ UNCHANGED <<issued, dimension, write_lock, threads, probe>>

\* the loop is over: tx.commit() and Ok(ids)
BatchCommit ==
    /\ batch.active
    /\ batch.i > Len(batch.vectors)
    /\ LET c == [Call("insert_batch") EXCEPT !.vectors = batch.vectors,
                                             !.metadata = batch.metadata]
           end == CommitTransaction(Committed, View)
       IN  /\ rows' = end.rows
           /\ seq' = end.seq
           /\ tx' = end.tx
           /\ batch' = NoBatch
           /\ issued' = issued \cup {batch.ids[j] : j \in DOMAIN batch.ids}
           /\ last' = [c EXCEPT !.ids = batch.ids]
           /\ UNCHANGED <<dimension, write_lock, threads, probe>>

\* count() of the second instance
ReaderCount ==
    /\ last' = [Call("count") EXCEPT
                   !.count = CountRows(ReaderSnapshot(Committed, View))]
    /\ UNCHANGED <<rows, seq, tx, issued, dimension, write_lock, threads, batch, probe>>

\* search(query, k) of the second instance
ReaderSearch ==
    SearchOn(ReaderSnapshot(Committed, View), {Uniform(1, Dim)}, {1, MaxId + 1})

\* two instances on one file: the first inserts batches and, between them, inserts
\* and deletes single rows; the second counts and searches at any time
IsolationNext ==
    \/ (~batch.active /\ Insert(PersistInputs))
    \/ BatchBegin
    \/ BatchStep
    \/ BatchCommit
    \/ (~batch.active /\ Delete)
    \/ ReaderCount
    \/ ReaderSearch

IsolationSpec == Init /\ [][IsolationNext]_vars

\* the ids of the rows an insert_batch call in progress has written so far
PendingIds == {batch.ids[j] : j \in DOMAIN batch.ids}

\* the ids of the results a search has just returned
ResultIdsNow == {last'.results[j].id : j \in DOMAIN last'.results}

\* C30: a second instance never observes a part of a batch. While the first
\* instance is inside insert_batch the committed rows do not change, and the
\* second instance's count() is the number of committed rows and its search
\* results hold committed rows only, none that the batch has written; when the
\* batch commits, all its rows become committed together, one for each vector;
\* when it fails, the committed rows are what they were before it began.
C30_NoPartialBatchObserved ==
    [][/\ (last'.op = "count")
              => last'.count = Cardinality(DOMAIN rows' \ PendingIds')
       /\ (last'.op = "search" /\ last'.err = "ok")
              => /\ ResultIdsNow \subseteq DOMAIN rows'
                 /\ ResultIdsNow \cap PendingIds' = {}
                 /\ (last'.k > MaxId => Len(last'.results) <= Cardinality(DOMAIN rows'))
       /\ batch'.active
              => /\ rows' = rows
                 /\ seq' = seq
                 /\ PendingIds' \cap DOMAIN rows' = {}
       /\ (batch.active /\ ~batch'.active /\ last'.err = "ok")
              => /\ Len(last'.ids) = Len(last'.vectors)
                 /\ DOMAIN rows' = DOMAIN rows \cup PendingIds
                 /\ \A j \in DOMAIN last'.ids :
                        /\ last'.ids[j] \notin DOMAIN rows
                        /\ rows'[last'.ids[j]].vector
                               = serialize_vector(last'.vectors[j])
       /\ (batch.active /\ ~batch'.active /\ last'.err # "ok")
              => /\ rows' = rows
                 /\ seq' = seq
                 /\ ~tx'.open]_vars

\* the second instance counted one row while the first instance, inside
\* insert_batch, had written one row of its batch into a file that held one
C30_Witness ==
    /\ batch.active
    /\ Cardinality(PendingIds) = 1
    /\ last.op = "count"
    /\ last.count = 1
    /\ Cardinality(DOMAIN rows) = 1

====
